---------------------------- MODULE Spec2Model ----------------------------
(***************************************************************************)
(* A state-machine model of the process scheduler and resource-arbitration *)
(* layer of src/os-pa2-main/pa2.c: the eight scheduling policies (FCFS,    *)
(* SJF, STCF, Round-Robin, Priority, Priority+Aging, Priority-Ceiling,     *)
(* Priority-Inheritance) with their acquire/release callbacks, driven by   *)
(* the simulation framework (fork, one schedule() call per tick, acquire   *)
(* before the tick's execution, release after it).                         *)
(***************************************************************************)
EXTENDS Integers, Sequences, FiniteSets, TLC

\* ------------------------------------------------------------------ bounds
\* Number of processes the driver forks (pids 1..NPROC, forked in pid order).
NPROC == 3
\* Largest lifespan the driver gives a process.
MaxLifespan == 3
\* Largest lifespan in the runs with long processes (SpecStcf): a process can
\* be overtaken there after it has executed for two ticks.
LongLifespan == 4
\* Number of processes in the crowded runs (SpecPip): an owner, three waiters
\* on its resource and a process that blocks on a resource a waiter owns.
NCROWD == 5
\* Lifespan of every process of the crowded runs.
CrowdLifespan == 2

\* --------------------------------------------------------------- constants
\* Size of the resource table (resource.h, consumed from the framework).
NR_RESOURCES == 2
\* Priority ceiling, exclusive upper bound of a base priority (process.h).
MAX_PRIO == 5
\* Base priorities the driver gives in the general runs: the lowest and the
\* two highest.
BasePrios == {0, MAX_PRIO - 2, MAX_PRIO - 1}
\* limits.h, the initial value of the scans' running minimum. The value is
\* 4294967295 in the program; the model uses the largest integer of the model
\* checker, which like it exceeds every lifespan and every remaining time.
UINT_MAX == 2147483647

NULL == 0
\* "No resource": the index one past the resource table.
NORES == NR_RESOURCES
Procs == 1..(IF NCROWD > NPROC THEN NCROWD ELSE NPROC)
Resources == 0..(NR_RESOURCES - 1)
Policies == {"fcfs", "sjf", "stcf", "rr", "prio", "pa", "pcp", "pip"}

VARIABLES
  policy,      \* the scheduler selected for the run (struct scheduler *sched)
  current,     \* struct process *current
  status,      \* process -> NONE (not forked yet) | READY | RUNNING | BLOCKED | TERMINATED
  age,         \* process -> ticks executed
  lifespan,    \* process -> ticks required
  prio,        \* process -> current priority
  prio_orig,   \* process -> base priority
  readyqueue,  \* struct list_head readyqueue, head first
  owner,       \* resource -> owning process or NULL
  waitqueue,   \* resource -> its wait list, head first
  phase,       \* the driver's position in the tick: tick | acq | rel
  pending,     \* process -> the resource whose acquire failed and is retried
  fault,       \* the program died on a NULL dereference
  last,        \* the last call made: op, caller, resource, results
  resUsed,     \* some acquire() has been called in this run
  reqOrder     \* resource -> processes blocked on it that have not owned it since, oldest first

vars == <<policy, current, status, age, lifespan, prio, prio_orig, readyqueue,
          owner, waitqueue, phase, pending, fault, last, resUsed, reqOrder>>

\* ----------------------------------------------------------- list helpers
\* list_add_tail(&p->list, &q)
list_add_tail(p, q) == Append(q, p)
\* list_del_init(&p->list): unlink p from the list it is on
list_del_init(p, q) == SelectSeq(q, LAMBDA x : x # p)
\* list_empty(&q)
list_empty(q) == Len(q) = 0
\* list_first_entry(&q, struct process, list)
list_first_entry(q) == q[1]

SeqSet(q) == {q[i] : i \in 1..Len(q)}

\* ------------------------------------------------- default acquire/release
\* A callback's result: the return value and the fields it may have written.
\* fcfs_acquire without the test of r->owner: the caller takes the resource
\* from its owner.
fcfs_acquire_steals(r) ==
  [ok |-> TRUE, owner |-> [owner EXCEPT ![r] = current],
   status |-> status, waitqueue |-> waitqueue,
   readyqueue |-> readyqueue, prio |-> prio]

\* fcfs_acquire with list_add() in place of list_add_tail(): the caller joins
\* the head of the wait list.
fcfs_acquire_at_head(r) ==
  IF owner[r] = NULL
  THEN [ok |-> TRUE, owner |-> [owner EXCEPT ![r] = current],
        status |-> status, waitqueue |-> waitqueue,
        readyqueue |-> readyqueue, prio |-> prio]
  ELSE [ok |-> FALSE, owner |-> owner,
        status |-> [status EXCEPT ![current] = "BLOCKED"],
        waitqueue |-> [waitqueue EXCEPT ![r] = <<current>> \o @],
        readyqueue |-> readyqueue, prio |-> prio]

fcfs_acquire(r) ==
  IF owner[r] = NULL
  THEN [ok |-> TRUE, owner |-> [owner EXCEPT ![r] = current],
        status |-> status, waitqueue |-> waitqueue,
        readyqueue |-> readyqueue, prio |-> prio]
  ELSE [ok |-> FALSE, owner |-> owner,
        status |-> [status EXCEPT ![current] = "BLOCKED"],
        waitqueue |-> [waitqueue EXCEPT ![r] = list_add_tail(current, @)],
        readyqueue |-> readyqueue, prio |-> prio]

\* fcfs_release without list_del_init(): the waiter is put on the ready queue
\* while still on the wait list.
fcfs_release_keeps_waiter(r) ==
  IF ~list_empty(waitqueue[r])
  THEN LET waiter == list_first_entry(waitqueue[r]) IN
       [owner |-> [owner EXCEPT ![r] = NULL],
        status |-> [status EXCEPT ![waiter] = "READY"],
        waitqueue |-> waitqueue,
        readyqueue |-> list_add_tail(waiter, readyqueue), prio |-> prio]
  ELSE [owner |-> [owner EXCEPT ![r] = NULL], status |-> status,
        waitqueue |-> waitqueue, readyqueue |-> readyqueue, prio |-> prio]

\* fcfs_release that hands the resource over to the waiter it wakes.
fcfs_release_hands_over(r) ==
  IF ~list_empty(waitqueue[r])
  THEN LET waiter == list_first_entry(waitqueue[r]) IN
       [owner |-> [owner EXCEPT ![r] = waiter],
        status |-> [status EXCEPT ![waiter] = "READY"],
        waitqueue |-> [waitqueue EXCEPT ![r] = list_del_init(waiter, @)],
        readyqueue |-> list_add_tail(waiter, readyqueue), prio |-> prio]
  ELSE [owner |-> [owner EXCEPT ![r] = NULL], status |-> status,
        waitqueue |-> waitqueue, readyqueue |-> readyqueue, prio |-> prio]

\* fcfs_release that wakes the last entry of the wait list, not the first.
fcfs_release_wakes_last(r) ==
  IF ~list_empty(waitqueue[r])
  THEN LET waiter == waitqueue[r][Len(waitqueue[r])] IN
       [owner |-> [owner EXCEPT ![r] = NULL],
        status |-> [status EXCEPT ![waiter] = "READY"],
        waitqueue |-> [waitqueue EXCEPT ![r] = list_del_init(waiter, @)],
        readyqueue |-> list_add_tail(waiter, readyqueue), prio |-> prio]
  ELSE [owner |-> [owner EXCEPT ![r] = NULL], status |-> status,
        waitqueue |-> waitqueue, readyqueue |-> readyqueue, prio |-> prio]

fcfs_release(r) ==
  IF ~list_empty(waitqueue[r])
  THEN LET waiter == list_first_entry(waitqueue[r]) IN
       [owner |-> [owner EXCEPT ![r] = NULL],
        status |-> [status EXCEPT ![waiter] = "READY"],
        waitqueue |-> [waitqueue EXCEPT ![r] = list_del_init(waiter, @)],
        readyqueue |-> list_add_tail(waiter, readyqueue), prio |-> prio]
  ELSE [owner |-> [owner EXCEPT ![r] = NULL], status |-> status,
        waitqueue |-> waitqueue, readyqueue |-> readyqueue, prio |-> prio]

\* ------------------------------------------------------------------- FCFS
\* A schedule() result: the process returned, the fields written, and whether
\* the call dereferenced NULL.
SchedResult(n, q, pr, f) == [next |-> n, readyqueue |-> q, prio |-> pr, fault |-> f]

\* fcfs_schedule that puts the current process back on the ready queue
\* instead of returning it (the round-robin shape).
fcfs_schedule_preempts ==
  LET q == IF current # NULL /\ status[current] # "BLOCKED"
              /\ age[current] < lifespan[current]
           THEN list_add_tail(current, readyqueue)
           ELSE readyqueue
  IN IF ~list_empty(q)
     THEN LET next == list_first_entry(q) IN
          SchedResult(next, list_del_init(next, q), prio, FALSE)
     ELSE SchedResult(NULL, q, prio, FALSE)

\* fcfs_schedule without the pick after a completed current process: when
\* current has reached its lifespan nothing is taken from the ready queue.
fcfs_schedule_idles ==
  IF current # NULL /\ status[current] # "BLOCKED" /\ age[current] < lifespan[current]
  THEN SchedResult(current, readyqueue, prio, FALSE)
  ELSE IF current = NULL /\ ~list_empty(readyqueue)
       THEN LET next == list_first_entry(readyqueue) IN
            SchedResult(next, list_del_init(next, readyqueue), prio, FALSE)
       ELSE SchedResult(NULL, readyqueue, prio, FALSE)

fcfs_schedule ==
  IF current # NULL /\ status[current] # "BLOCKED" /\ age[current] < lifespan[current]
  THEN SchedResult(current, readyqueue, prio, FALSE)
  ELSE IF ~list_empty(readyqueue)
       THEN LET next == list_first_entry(readyqueue) IN
            SchedResult(next, list_del_init(next, readyqueue), prio, FALSE)
       ELSE SchedResult(NULL, readyqueue, prio, FALSE)


\* -------------------------------------------------------------------- SJF
\* list_for_each_entry over the ready queue keeping the smallest lifespan
RECURSIVE sjf_scan(_, _, _, _)
sjf_scan(q, i, min, next) ==
  IF i > Len(q) THEN next
  ELSE IF lifespan[q[i]] < min
       THEN sjf_scan(q, i + 1, lifespan[q[i]], q[i])
       ELSE sjf_scan(q, i + 1, min, next)

\* sjf_schedule with <= in place of < in the scan: among equal lifespans the
\* entry farthest from the head is taken.
RECURSIVE sjf_scan_last_tie(_, _, _, _)
sjf_scan_last_tie(q, i, min, next) ==
  IF i > Len(q) THEN next
  ELSE IF lifespan[q[i]] <= min
       THEN sjf_scan_last_tie(q, i + 1, lifespan[q[i]], q[i])
       ELSE sjf_scan_last_tie(q, i + 1, min, next)

sjf_schedule_last_tie ==
  IF current # NULL /\ status[current] # "BLOCKED" /\ age[current] < lifespan[current]
  THEN SchedResult(current, readyqueue, prio, FALSE)
  ELSE IF ~list_empty(readyqueue)
       THEN LET next == sjf_scan_last_tie(readyqueue, 1, UINT_MAX, NULL) IN
            SchedResult(next, list_del_init(next, readyqueue), prio, FALSE)
       ELSE SchedResult(NULL, readyqueue, prio, FALSE)

sjf_schedule ==
  IF current # NULL /\ status[current] # "BLOCKED" /\ age[current] < lifespan[current]
  THEN SchedResult(current, readyqueue, prio, FALSE)
  ELSE IF ~list_empty(readyqueue)
       THEN LET next == sjf_scan(readyqueue, 1, UINT_MAX, NULL) IN
            SchedResult(next, list_del_init(next, readyqueue), prio, FALSE)
       ELSE SchedResult(NULL, readyqueue, prio, FALSE)

\* ------------------------------------------------------------------- STCF
\* The scan of the preemption branch: compares the remaining time with min,
\* and stores the lifespan in min.
RECURSIVE stcf_scan_preempt(_, _, _, _)
stcf_scan_preempt(q, i, min, next) ==
  IF i > Len(q) THEN [min |-> min, next |-> next]
  ELSE IF lifespan[q[i]] - age[q[i]] < min
       THEN stcf_scan_preempt(q, i + 1, lifespan[q[i]], q[i])
       ELSE stcf_scan_preempt(q, i + 1, min, next)

\* The scan under pick_next: compares and stores the remaining time.
RECURSIVE stcf_scan_pick(_, _, _, _)
stcf_scan_pick(q, i, min, next) ==
  IF i > Len(q) THEN next
  ELSE IF lifespan[q[i]] - age[q[i]] < min
       THEN stcf_scan_pick(q, i + 1, lifespan[q[i]] - age[q[i]], q[i])
       ELSE stcf_scan_pick(q, i + 1, min, next)

stcf_pick_next ==
  IF ~list_empty(readyqueue)
  THEN LET next == stcf_scan_pick(readyqueue, 1, UINT_MAX, NULL) IN
       SchedResult(next, list_del_init(next, readyqueue), prio, FALSE)
  ELSE SchedResult(NULL, readyqueue, prio, FALSE)

stcf_schedule ==
  IF current = NULL \/ status[current] = "BLOCKED" THEN stcf_pick_next
  ELSE IF age[current] < lifespan[current]
  THEN IF ~list_empty(readyqueue)
       THEN LET s == stcf_scan_preempt(readyqueue, 1, UINT_MAX, NULL) IN
            IF lifespan[current] - age[current] > s.min
            THEN SchedResult(s.next,
                             list_del_init(s.next, list_add_tail(current, readyqueue)),
                             prio, FALSE)
            ELSE SchedResult(current, readyqueue, prio, FALSE)
       ELSE SchedResult(current, readyqueue, prio, FALSE)
  ELSE IF age[current] = lifespan[current] THEN stcf_pick_next
  ELSE SchedResult(NULL, readyqueue, prio, FALSE)

\* ------------------------------------------------------------ Round-robin
\* rr_schedule with age <= lifespan in place of age < lifespan: a completed
\* current process is put back on the ready queue.
rr_schedule_requeues_completed ==
  LET q == IF current # NULL /\ status[current] # "BLOCKED"
              /\ age[current] <= lifespan[current]
           THEN list_add_tail(current, readyqueue)
           ELSE readyqueue
  IN IF ~list_empty(q)
     THEN LET next == list_first_entry(q) IN
          SchedResult(next, list_del_init(next, q), prio, FALSE)
     ELSE SchedResult(NULL, q, prio, FALSE)

\* rr_schedule that returns a current process that can go on (the FCFS shape).
rr_schedule_keeps_running ==
  IF current # NULL /\ status[current] # "BLOCKED" /\ age[current] < lifespan[current]
  THEN SchedResult(current, readyqueue, prio, FALSE)
  ELSE IF ~list_empty(readyqueue)
       THEN LET next == list_first_entry(readyqueue) IN
            SchedResult(next, list_del_init(next, readyqueue), prio, FALSE)
       ELSE SchedResult(NULL, readyqueue, prio, FALSE)

rr_schedule ==
  LET q == IF current # NULL /\ status[current] # "BLOCKED"
              /\ age[current] < lifespan[current]
           THEN list_add_tail(current, readyqueue)
           ELSE readyqueue
  IN IF ~list_empty(q)
     THEN LET next == list_first_entry(q) IN
          SchedResult(next, list_del_init(next, q), prio, FALSE)
     ELSE SchedResult(NULL, q, prio, FALSE)

\* --------------------------------------------------------------- Priority
prio_acquire(r) ==
  IF owner[r] = NULL
  THEN [ok |-> TRUE, owner |-> [owner EXCEPT ![r] = current],
        status |-> status, waitqueue |-> waitqueue,
        readyqueue |-> readyqueue, prio |-> prio]
  ELSE [ok |-> FALSE, owner |-> owner,
        status |-> [status EXCEPT ![current] = "BLOCKED"],
        waitqueue |-> [waitqueue EXCEPT ![r] = list_add_tail(current, @)],
        readyqueue |-> readyqueue, prio |-> prio]

\* list_for_each_entry over a wait list keeping the first waiter of the
\* highest priority
RECURSIVE prio_release_scan(_, _, _)
prio_release_scan(q, i, waiter) ==
  IF i > Len(q) THEN waiter
  ELSE IF prio[q[i]] > prio[waiter]
       THEN prio_release_scan(q, i + 1, q[i])
       ELSE prio_release_scan(q, i + 1, waiter)

prio_release(r) ==
  IF ~list_empty(waitqueue[r])
  THEN LET waiter == prio_release_scan(waitqueue[r], 1, list_first_entry(waitqueue[r])) IN
       [owner |-> [owner EXCEPT ![r] = NULL],
        status |-> [status EXCEPT ![waiter] = "READY"],
        waitqueue |-> [waitqueue EXCEPT ![r] = list_del_init(waiter, @)],
        readyqueue |-> list_add_tail(waiter, readyqueue), prio |-> prio]
  ELSE [owner |-> [owner EXCEPT ![r] = NULL], status |-> status,
        waitqueue |-> waitqueue, readyqueue |-> readyqueue, prio |-> prio]

\* list_for_each_entry over the ready queue: tmp->prio >= max
RECURSIVE prio_scan(_, _, _, _)
prio_scan(q, i, max, next) ==
  IF i > Len(q) THEN next
  ELSE IF prio[q[i]] >= max
       THEN prio_scan(q, i + 1, prio[q[i]], q[i])
       ELSE prio_scan(q, i + 1, max, next)

\* prio_schedule without the test of PROCESS_BLOCKED: a blocked current
\* process is put back on the ready queue and may be picked.
prio_schedule_requeues_blocked ==
  LET q == IF current # NULL /\ age[current] < lifespan[current]
           THEN list_add_tail(current, readyqueue)
           ELSE readyqueue
  IN IF ~list_empty(q)
     THEN LET next == prio_scan(q, 1, 0, NULL) IN
          SchedResult(next, list_del_init(next, q), prio, FALSE)
     ELSE SchedResult(NULL, q, prio, FALSE)

prio_schedule ==
  LET q == IF current # NULL /\ status[current] # "BLOCKED"
              /\ age[current] < lifespan[current]
           THEN list_add_tail(current, readyqueue)
           ELSE readyqueue
  IN IF ~list_empty(q)
     THEN LET next == prio_scan(q, 1, 0, NULL) IN
          SchedResult(next, list_del_init(next, q), prio, FALSE)
     ELSE SchedResult(NULL, q, prio, FALSE)

\* ------------------------------------------------------- Priority + aging
\* list_for_each_entry over the ready queue: tmp->prio++, then the comparison
RECURSIVE pa_scan(_, _, _, _, _)
pa_scan(q, i, max, next, pr) ==
  IF i > Len(q) THEN [next |-> next, prio |-> pr]
  ELSE LET pr1 == [pr EXCEPT ![q[i]] = @ + 1] IN
       IF pr1[q[i]] > max /\ pr1[q[i]] < MAX_PRIO
       THEN pa_scan(q, i + 1, pr1[q[i]], q[i], pr1)
       ELSE pa_scan(q, i + 1, max, next, pr1)

pa_schedule ==
  LET q == IF current # NULL /\ status[current] # "BLOCKED"
              /\ age[current] < lifespan[current]
           THEN list_add_tail(current, readyqueue)
           ELSE readyqueue
  IN IF ~list_empty(q)
     THEN LET s == pa_scan(q, 1, 0, NULL, prio) IN
          IF s.next = NULL
          THEN \* next->prio = next->prio_orig with next == NULL
               SchedResult(NULL, q, s.prio, TRUE)
          ELSE SchedResult(s.next, list_del_init(s.next, q),
                           [s.prio EXCEPT ![s.next] = prio_orig[s.next]], FALSE)
     ELSE SchedResult(NULL, q, prio, FALSE)

\* pcp_acquire without r->owner->prio = MAX_PRIO: the new owner keeps the
\* priority it had.
pcp_acquire_no_ceiling(r) ==
  IF owner[r] = NULL
  THEN [ok |-> TRUE, owner |-> [owner EXCEPT ![r] = current],
        status |-> status, waitqueue |-> waitqueue,
        readyqueue |-> readyqueue, prio |-> prio]
  ELSE [ok |-> FALSE, owner |-> owner,
        status |-> [status EXCEPT ![current] = "BLOCKED"],
        waitqueue |-> [waitqueue EXCEPT ![r] = list_add_tail(current, @)],
        readyqueue |-> readyqueue, prio |-> prio]

\* -------------------------------------------- Priority ceiling protocol
pcp_acquire(r) ==
  IF owner[r] = NULL
  THEN [ok |-> TRUE, owner |-> [owner EXCEPT ![r] = current],
        status |-> status, waitqueue |-> waitqueue,
        readyqueue |-> readyqueue, prio |-> [prio EXCEPT ![current] = MAX_PRIO]]
  ELSE [ok |-> FALSE, owner |-> owner,
        status |-> [status EXCEPT ![current] = "BLOCKED"],
        waitqueue |-> [waitqueue EXCEPT ![r] = list_add_tail(current, @)],
        readyqueue |-> readyqueue, prio |-> prio]

\* list_for_each_entry over a wait list: a waiter of higher priority than the
\* one kept so far replaces it and has its priority reset at once
RECURSIVE pcp_release_scan(_, _, _, _)
pcp_release_scan(q, i, waiter, pr) ==
  IF i > Len(q) THEN [waiter |-> waiter, prio |-> pr]
  ELSE IF pr[q[i]] > pr[waiter]
       THEN pcp_release_scan(q, i + 1, q[i], [pr EXCEPT ![q[i]] = prio_orig[q[i]]])
       ELSE pcp_release_scan(q, i + 1, waiter, pr)

pcp_release(r) ==
  IF ~list_empty(waitqueue[r])
  THEN LET s == pcp_release_scan(waitqueue[r], 1, list_first_entry(waitqueue[r]), prio) IN
       [owner |-> [owner EXCEPT ![r] = NULL],
        status |-> [status EXCEPT ![s.waiter] = "READY"],
        waitqueue |-> [waitqueue EXCEPT ![r] = list_del_init(s.waiter, @)],
        readyqueue |-> list_add_tail(s.waiter, readyqueue), prio |-> s.prio]
  ELSE [owner |-> [owner EXCEPT ![r] = NULL], status |-> status,
        waitqueue |-> waitqueue, readyqueue |-> readyqueue, prio |-> prio]

\* pip_acquire without the test current->prio > r->owner->prio: the owner
\* takes the caller's priority even when that lowers it.
pip_acquire_always_inherits(r) ==
  IF owner[r] = NULL
  THEN [ok |-> TRUE, owner |-> [owner EXCEPT ![r] = current],
        status |-> status, waitqueue |-> waitqueue,
        readyqueue |-> readyqueue, prio |-> prio]
  ELSE [ok |-> FALSE, owner |-> owner,
        status |-> [status EXCEPT ![current] = "BLOCKED"],
        waitqueue |-> [waitqueue EXCEPT ![r] = list_add_tail(current, @)],
        readyqueue |-> readyqueue,
        prio |-> [prio EXCEPT ![owner[r]] = prio[current]]]

\* ----------------------------------------- Priority inheritance protocol
pip_acquire(r) ==
  IF owner[r] = NULL
  THEN [ok |-> TRUE, owner |-> [owner EXCEPT ![r] = current],
        status |-> status, waitqueue |-> waitqueue,
        readyqueue |-> readyqueue, prio |-> prio]
  ELSE [ok |-> FALSE, owner |-> owner,
        status |-> [status EXCEPT ![current] = "BLOCKED"],
        waitqueue |-> [waitqueue EXCEPT ![r] = list_add_tail(current, @)],
        readyqueue |-> readyqueue,
        prio |-> IF prio[current] > prio[owner[r]]
                 THEN [prio EXCEPT ![owner[r]] = prio[current]]
                 ELSE prio]

RECURSIVE pip_release_scan(_, _, _, _)
pip_release_scan(q, i, waiter, pr) ==
  IF i > Len(q) THEN [waiter |-> waiter, prio |-> pr]
  ELSE IF pr[q[i]] > pr[waiter]
       THEN pip_release_scan(q, i + 1, q[i], [pr EXCEPT ![q[i]] = prio_orig[q[i]]])
       ELSE pip_release_scan(q, i + 1, waiter, pr)

pip_release(r) ==
  IF ~list_empty(waitqueue[r])
  THEN LET s == pip_release_scan(waitqueue[r], 1, list_first_entry(waitqueue[r]), prio) IN
       [owner |-> [owner EXCEPT ![r] = NULL],
        status |-> [status EXCEPT ![s.waiter] = "READY"],
        waitqueue |-> [waitqueue EXCEPT ![r] = list_del_init(s.waiter, @)],
        readyqueue |-> list_add_tail(s.waiter, readyqueue), prio |-> s.prio]
  ELSE [owner |-> [owner EXCEPT ![r] = NULL], status |-> status,
        waitqueue |-> waitqueue, readyqueue |-> readyqueue, prio |-> prio]

\* ------------------------------------------------- the scheduler tables
\* struct scheduler: the callbacks of the policy selected for the run
DefaultProtocol == {"fcfs", "sjf", "stcf", "rr"}

sched_acquire(r) ==
  CASE policy \in DefaultProtocol -> fcfs_acquire(r)
    [] policy \in {"prio", "pa"}  -> prio_acquire(r)
    [] policy = "pcp"             -> pcp_acquire(r)
    [] policy = "pip"             -> pip_acquire(r)

sched_release(r) ==
  CASE policy \in DefaultProtocol -> fcfs_release(r)
    [] policy \in {"prio", "pa"}  -> prio_release(r)
    [] policy = "pcp"             -> pcp_release(r)
    [] policy = "pip"             -> pip_release(r)

sched_schedule ==
  CASE policy = "fcfs" -> fcfs_schedule
    [] policy = "sjf"  -> sjf_schedule
    [] policy = "stcf" -> stcf_schedule
    [] policy = "rr"   -> rr_schedule
    [] policy = "pa"   -> pa_schedule
    [] policy \in {"prio", "pcp", "pip"} -> prio_schedule

\* ------------------------------------------------------------- the driver
\* The resources process p owns.
Holding(p) == {r \in Resources : owner[r] = p}

\* The tick's execution is over: the driver has made the releases it meant to
\* make, and a process that has reached its lifespan holds nothing (the
\* driver decommissions it right after schedule()).
TickOver ==
  \/ phase = "tick"
  \/ /\ phase = "rel"
     /\ (age[current] < lifespan[current] \/ Holding(current) = {})

Call(op, p, r, ok, n) == [op |-> op, proc |-> p, rid |-> r, ok |-> ok, next |-> n]

InitWith(policies) ==
  /\ policy \in policies
  /\ current = NULL
  /\ status = [p \in Procs |-> "NONE"]
  /\ age = [p \in Procs |-> 0]
  /\ lifespan = [p \in Procs |-> 1]
  /\ prio = [p \in Procs |-> 0]
  /\ prio_orig = [p \in Procs |-> 0]
  /\ readyqueue = <<>>
  /\ owner = [r \in Resources |-> NULL]
  /\ waitqueue = [r \in Resources |-> <<>>]
  /\ phase = "tick"
  /\ pending = [p \in Procs |-> NORES]
  /\ fault = FALSE
  /\ last = Call("init", NULL, NORES, FALSE, NULL)
  /\ resUsed = FALSE
  /\ reqOrder = [r \in Resources |-> <<>>]

Init == InitWith(Policies)

\* At the start of a tick the driver forks the next process: age 0, READY,
\* priority = base priority, appended to the ready queue. The run has n
\* processes, with lifespans drawn from the set lifespans and the base
\* priority of process p from the set prios[p].
ForkOf(n, lifespans, prios) ==
  /\ ~fault
  /\ TickOver
  /\ \E p \in 1..n : \E l \in lifespans, b \in prios[p] :
       /\ status[p] = "NONE"
       /\ \A q \in Procs : q < p => status[q] # "NONE"
       /\ status' = [status EXCEPT ![p] = "READY"]
       /\ lifespan' = [lifespan EXCEPT ![p] = l]
       /\ prio' = [prio EXCEPT ![p] = b]
       /\ prio_orig' = [prio_orig EXCEPT ![p] = b]
       /\ readyqueue' = list_add_tail(p, readyqueue)
       /\ last' = Call("fork", p, NORES, FALSE, NULL)
  /\ phase' = "tick"
  /\ UNCHANGED <<policy, current, age, owner, waitqueue, pending, fault,
                 resUsed, reqOrder>>

\* One schedule() call: current = sched->schedule(); the previous process goes
\* from RUNNING to READY and is decommissioned when it has reached its
\* lifespan; the process returned becomes RUNNING.
Tick ==
  /\ ~fault
  /\ TickOver
  /\ LET res == sched_schedule IN
     IF res.fault
     THEN /\ fault' = TRUE
          /\ last' = Call("schedule", current, NORES, FALSE, NULL)
          /\ UNCHANGED <<current, status, readyqueue, prio, phase>>
     ELSE /\ fault' = FALSE
          /\ current' = res.next
          /\ readyqueue' = res.readyqueue
          /\ prio' = res.prio
          /\ status' = [p \in Procs |->
                          IF p = res.next THEN "RUNNING"
                          ELSE IF p = current /\ age[p] = lifespan[p] THEN "TERMINATED"
                          ELSE IF p = current /\ status[p] = "RUNNING" THEN "READY"
                          ELSE status[p]]
          /\ phase' = IF res.next = NULL THEN "tick" ELSE "acq"
          /\ last' = Call("schedule", current, NORES, TRUE, res.next)
  /\ UNCHANGED <<policy, age, lifespan, prio_orig, owner, waitqueue, pending,
                 resUsed, reqOrder>>

\* The running process requests resource r before executing its tick. A
\* request that failed is the one retried when the process runs again.
Acquire(r) ==
  /\ ~fault
  /\ phase = "acq"
  /\ owner[r] # current
  /\ pending[current] \in {NORES, r}
  /\ LET res == sched_acquire(r) IN
       /\ owner' = res.owner
       /\ status' = res.status
       /\ waitqueue' = res.waitqueue
       /\ readyqueue' = res.readyqueue
       /\ prio' = res.prio
       /\ pending' = [pending EXCEPT ![current] = IF res.ok THEN NORES ELSE r]
       /\ phase' = IF res.ok THEN "acq" ELSE "tick"
       /\ last' = Call("acquire", current, r, res.ok, NULL)
       /\ reqOrder' = [reqOrder EXCEPT ![r] =
                         IF res.ok THEN list_del_init(current, @)
                         ELSE IF current \in SeqSet(@) THEN @
                         ELSE Append(@, current)]
  /\ resUsed' = TRUE
  /\ UNCHANGED <<policy, current, age, lifespan, prio_orig, fault>>

\* The running process executes for one tick.
Run ==
  /\ ~fault
  /\ phase = "acq"
  /\ pending[current] = NORES
  /\ age' = [age EXCEPT ![current] = @ + 1]
  /\ phase' = "rel"
  /\ last' = Call("run", current, NORES, FALSE, NULL)
  /\ UNCHANGED <<policy, current, status, lifespan, prio, prio_orig, readyqueue,
                 owner, waitqueue, pending, fault, resUsed, reqOrder>>

\* After executing, the running process releases resource r, which it owns.
Release(r) ==
  /\ ~fault
  /\ phase = "rel"
  /\ owner[r] = current
  /\ LET res == sched_release(r) IN
       /\ owner' = res.owner
       /\ status' = res.status
       /\ waitqueue' = res.waitqueue
       /\ readyqueue' = res.readyqueue
       /\ prio' = res.prio
  /\ last' = Call("release", current, r, FALSE, NULL)
  /\ UNCHANGED <<policy, current, age, lifespan, prio_orig, phase, pending,
                 fault, resUsed, reqOrder>>

DoAcquire == \E r \in Resources : Acquire(r)
DoRelease == \E r \in Resources : Release(r)

Fork == ForkOf(NPROC, 1..MaxLifespan, [p \in Procs |-> BasePrios])

Next == Fork \/ Tick \/ DoAcquire \/ Run \/ DoRelease

Spec == Init /\ [][Next]_vars

\* The same simulation with one policy selected.
SpecFcfs == InitWith({"fcfs"}) /\ [][Next]_vars
SpecRr == InitWith({"rr"}) /\ [][Next]_vars
SpecSjf == InitWith({"sjf"}) /\ [][Next]_vars

\* Runs with long processes: lifespans up to LongLifespan.
ForkLong == ForkOf(NPROC, 1..LongLifespan, [p \in Procs |-> BasePrios])
NextLong == ForkLong \/ Tick \/ DoAcquire \/ Run \/ DoRelease
SpecStcf == InitWith({"stcf"}) /\ [][NextLong]_vars

\* Crowded runs: NCROWD processes of lifespan CrowdLifespan, each arriving
\* with a base priority above those of the processes before it.
ForkCrowd == ForkOf(NCROWD, {CrowdLifespan}, [p \in Procs |-> {(p - 1) % MAX_PRIO}])
NextCrowd == ForkCrowd \/ Tick \/ DoAcquire \/ Run \/ DoRelease
SpecPip == InitWith({"pip"}) /\ [][NextCrowd]_vars

\* ============================================================= properties
\* How many times process p is linked on list q.
Count(q, p) == Cardinality({i \in 1..Len(q) : q[i] = p})
\* How many times p is linked on the wait lists, all resources together.
RECURSIVE WaitCountUpTo(_, _)
WaitCountUpTo(p, n) ==
  IF n = 0 THEN 0 ELSE Count(waitqueue[n - 1], p) + WaitCountUpTo(p, n - 1)
WaitCount(p) == WaitCountUpTo(p, NR_RESOURCES)
Forked == {p \in Procs : status[p] # "NONE"}

\* C1: queue membership. Every process is linked at most once over the ready
\* queue and all wait lists; a BLOCKED process is on exactly one wait list; a
\* READY process other than the current one is on the ready queue; the
\* running process and every completed process are on no list.
C1_QueueMembership ==
  \A p \in Procs :
    /\ Count(readyqueue, p) + WaitCount(p) <= 1
    /\ status[p] = "BLOCKED" => WaitCount(p) = 1 /\ Count(readyqueue, p) = 0
    /\ (status[p] = "READY" /\ p # current) => Count(readyqueue, p) = 1
    /\ (p = current /\ status[p] = "RUNNING") =>
          Count(readyqueue, p) + WaitCount(p) = 0
    /\ (status[p] \in {"TERMINATED", "NONE"} \/ (p \in Forked /\ age[p] = lifespan[p])) =>
          Count(readyqueue, p) + WaitCount(p) = 0

\* A process blocked on a wait list, another one ready on the ready queue and
\* a third one running, after a release has promoted a waiter.
C1_Witness ==
  /\ last.op = "release"
  /\ \E p, q \in Procs :
       /\ p # q /\ p # current /\ q # current
       /\ status[p] = "BLOCKED" /\ WaitCount(p) = 1
       /\ status[q] = "READY" /\ Count(readyqueue, q) = 1
       /\ status[current] = "RUNNING"

\* C2: mutual exclusion. A resource has one owner field, so at most one process
\* holds it; the field changes only from none to the caller, by an acquire()
\* that returns true, or from the caller to none, by its release(); acquire()
\* on a resource another process owns returns false and leaves the owner.
C2_OwnerStep ==
  \A r \in Resources :
    /\ owner'[r] # owner[r] =>
         \/ /\ owner[r] = NULL /\ owner'[r] = current /\ current # NULL
            /\ last'.op = "acquire" /\ last'.rid = r /\ last'.ok
         \/ /\ owner[r] = current /\ owner'[r] = NULL
            /\ last'.op = "release" /\ last'.rid = r
    /\ (last'.op = "acquire" /\ last'.rid = r /\ owner[r] # NULL) =>
         ~last'.ok /\ owner'[r] = owner[r]
    /\ (last'.op = "acquire" /\ last'.rid = r /\ owner[r] = NULL) =>
         last'.ok /\ owner'[r] = current

C2_MutualExclusion == [][C2_OwnerStep]_vars

\* acquire() has just failed on a resource that another process owns.
C2_Witness ==
  /\ last.op = "acquire" /\ ~last.ok
  /\ owner[last.rid] \in Procs \ {last.proc}

\* C3 (the claim as stated): under PCP and PIP, at a tick boundary, a process
\* that owns no resource and is on no wait list has priority == base priority.
C3_PriorityRestored ==
  (policy \in {"pcp", "pip"} /\ TickOver) =>
     \A p \in Forked :
        (Holding(p) = {} /\ WaitCount(p) = 0) => prio[p] = prio_orig[p]

\* C4: schedule() never returns a process that has executed its whole
\* lifespan: such a process is neither the one returned, nor on the ready
\* queue, nor on a wait list.
C4_NoCompletedScheduled ==
  /\ (last.op = "schedule" /\ last.ok /\ last.next # NULL) =>
        age[last.next] < lifespan[last.next]
  /\ \A i \in 1..Len(readyqueue) : age[readyqueue[i]] < lifespan[readyqueue[i]]
  /\ \A r \in Resources : \A i \in 1..Len(waitqueue[r]) :
        age[waitqueue[r][i]] < lifespan[waitqueue[r][i]]

\* schedule() was called with a completed current process and another process
\* ready, and returned that other process.
C4_Witness ==
  /\ last.op = "schedule" /\ last.proc # NULL /\ last.next # NULL
  /\ age[last.proc] = lifespan[last.proc]
  /\ status[last.proc] = "TERMINATED"

\* C5: a process whose acquire(r) failed is on r's wait list and BLOCKED;
\* schedule() returns no process that is BLOCKED or on a wait list; and only
\* release(r) takes a process off r's wait list, making it READY.
C5_BlockedStep ==
  /\ \A r \in Resources : \A p \in SeqSet(waitqueue[r]) :
       \/ Count(waitqueue'[r], p) = 1 /\ status'[p] = "BLOCKED"
       \/ /\ last'.op = "release" /\ last'.rid = r
          /\ Count(waitqueue'[r], p) = 0 /\ status'[p] = "READY"
  /\ (last'.op = "acquire" /\ ~last'.ok) =>
       /\ Count(waitqueue'[last'.rid], last'.proc) = 1
       /\ status'[last'.proc] = "BLOCKED"
  /\ (last'.op = "schedule" /\ last'.next # NULL) =>
       /\ status[last'.next] # "BLOCKED"
       /\ WaitCount(last'.next) = 0

C5_BlockedUntilRelease == [][C5_BlockedStep]_vars

\* A process is still blocked on a wait list while schedule() has just
\* returned another process.
C5_Witness ==
  /\ last.op = "schedule" /\ last.next # NULL
  /\ \E p \in Procs : status[p] = "BLOCKED" /\ pending[p] # NORES
                      /\ Count(waitqueue[pending[p]], p) = 1
                      /\ last.proc = p

\* The policies whose acquire is fcfs_acquire or the identical prio_acquire.
PlainAcquire == DefaultProtocol \cup {"prio", "pa"}

\* C6: default acquire. On a resource without owner the caller becomes the
\* owner, the call returns true, and no list, status or priority changes. On
\* an owned resource the call returns false, the caller becomes BLOCKED and
\* is the new tail of that resource's wait list; the owner, the ready queue,
\* the other wait lists, the other statuses and the priorities are unchanged.
C6_AcquireStep ==
  (policy \in PlainAcquire /\ last'.op = "acquire") =>
     LET r == last'.rid IN
     IF owner[r] = NULL
     THEN /\ last'.ok
          /\ owner'[r] = current
          /\ \A x \in Resources \ {r} : owner'[x] = owner[x]
          /\ UNCHANGED <<status, readyqueue, waitqueue, prio>>
     ELSE /\ ~last'.ok
          /\ status'[current] = "BLOCKED"
          /\ \A p \in Procs \ {current} : status'[p] = status[p]
          /\ Len(waitqueue'[r]) = Len(waitqueue[r]) + 1
          /\ SubSeq(waitqueue'[r], 1, Len(waitqueue[r])) = waitqueue[r]
          /\ waitqueue'[r][Len(waitqueue'[r])] = current
          /\ \A x \in Resources \ {r} : waitqueue'[x] = waitqueue[x]
          /\ UNCHANGED <<owner, readyqueue, prio>>

C6_DefaultAcquire == [][C6_AcquireStep]_vars

\* A default acquire has just failed on a resource that already had a waiter:
\* the caller is behind it on the wait list.
C6_Witness ==
  /\ policy \in PlainAcquire
  /\ last.op = "acquire" /\ ~last.ok
  /\ Len(waitqueue[last.rid]) = 2
  /\ waitqueue[last.rid][2] = last.proc

\* C7: default release by the owner. Afterwards the resource has no owner. If
\* the wait list was not empty, its head, and only its head, is taken off it,
\* becomes READY and is the new tail of the ready queue; the other waiters
\* keep their order; the woken process is not made owner. If the wait list
\* was empty, only the owner changes.
C7_ReleaseStep ==
  (policy \in DefaultProtocol /\ last'.op = "release") =>
     LET r == last'.rid IN
     /\ owner[r] = current
     /\ owner'[r] = NULL
     /\ \A x \in Resources \ {r} : owner'[x] = owner[x] /\ waitqueue'[x] = waitqueue[x]
     /\ prio' = prio
     /\ IF waitqueue[r] # <<>>
        THEN LET w == Head(waitqueue[r]) IN
             /\ waitqueue'[r] = Tail(waitqueue[r])
             /\ status'[w] = "READY"
             /\ \A p \in Procs \ {w} : status'[p] = status[p]
             /\ readyqueue' = Append(readyqueue, w)
             /\ \A x \in Resources : owner'[x] # w \/ owner[x] = w
        ELSE UNCHANGED <<status, waitqueue, readyqueue>>

C7_DefaultRelease == [][C7_ReleaseStep]_vars

\* A default release has just woken the first of two waiters: the second one
\* is still on the wait list, the first one is the tail of the ready queue,
\* and the resource has no owner.
C7_Witness ==
  /\ policy \in DefaultProtocol
  /\ last.op = "release"
  /\ owner[last.rid] = NULL
  /\ Len(waitqueue[last.rid]) = 1
  /\ readyqueue # <<>>
  /\ pending[readyqueue[Len(readyqueue)]] = last.rid
  /\ status[readyqueue[Len(readyqueue)]] = "READY"

\* C8 (the claim as stated): under the default protocol a resource is served
\* in requesting order: whoever becomes owner of R is the process that has
\* been blocked on R the longest, if any process has been blocked on R and
\* has not owned it since.
C8_ServedStep ==
  policy \in DefaultProtocol =>
    \A r \in Resources :
      (owner[r] = NULL /\ owner'[r] # NULL) =>
         (reqOrder[r] = <<>> \/ Head(reqOrder[r]) = owner'[r])

C8_WakeStep ==
  policy \in DefaultProtocol =>
    \A r \in Resources :
      waitqueue'[r] # waitqueue[r] =>
         \/ /\ last'.op = "acquire" /\ last'.rid = r
            /\ waitqueue'[r] = Append(waitqueue[r], current)
         \/ /\ last'.op = "release" /\ last'.rid = r
            /\ waitqueue[r] # <<>>
            /\ waitqueue'[r] = Tail(waitqueue[r])
            /\ readyqueue' = Append(readyqueue, Head(waitqueue[r]))

Runnable(p) == p # NULL /\ status[p] # "BLOCKED" /\ age[p] < lifespan[p]

\* C9: FCFS is non-preemptive and arrival-ordered. schedule() returns the
\* current process again as long as it is not BLOCKED and has age < lifespan,
\* whatever has arrived, and leaves the ready queue alone; otherwise it takes
\* the head off the ready queue and returns it (none when the queue is empty).
\* Without resource use, a process forked later therefore never executes
\* before every process forked earlier is complete (A,A,A,B,B,B).
C9_ScheduleStep ==
  (policy = "fcfs" /\ last'.op = "schedule") =>
     IF Runnable(current)
     THEN current' = current /\ readyqueue' = readyqueue
     ELSE IF readyqueue # <<>>
          THEN current' = Head(readyqueue) /\ readyqueue' = Tail(readyqueue)
          ELSE current' = NULL /\ readyqueue' = readyqueue

C9_ArrivalOrder ==
  (policy = "fcfs" /\ ~resUsed) =>
     \A p, q \in Forked : (p < q /\ age[q] > 0) => age[p] = lifespan[p]

C9_FcfsNonPreemptive == [][C9_ScheduleStep]_vars /\ []C9_ArrivalOrder

\* FCFS, two processes of lifespan 3 and no resource use: the first one has
\* executed its three ticks and the second one has just executed its second,
\* while a third process waits on the ready queue.
C9_Witness ==
  /\ policy = "fcfs" /\ ~resUsed
  /\ lifespan[1] = 3 /\ lifespan[2] = 3
  /\ age[1] = 3 /\ age[2] = 2
  /\ current = 2 /\ last.op = "run"
  /\ readyqueue = <<3>>

\* C10: round-robin with a quantum of one tick. schedule() appends a current
\* process that can go on to the tail of the ready queue, then takes the head
\* off the ready queue and returns it. So the process returned is the one
\* returned by the previous call only when no other process is ready, and,
\* without resource use, a process forked later has never executed more ticks
\* than an unfinished process forked earlier (A,B,A,B,A,B).
C10_ScheduleStep ==
  (policy = "rr" /\ last'.op = "schedule") =>
     LET q == IF Runnable(current) THEN Append(readyqueue, current) ELSE readyqueue
     IN IF q # <<>>
        THEN current' = Head(q) /\ readyqueue' = Tail(q)
        ELSE current' = NULL /\ readyqueue' = q

C10_NoRepeat ==
  (policy = "rr" /\ last.op = "schedule" /\ last.next # NULL
     /\ last.next = last.proc) => readyqueue = <<>>

C10_CyclicOrder ==
  (policy = "rr" /\ ~resUsed) =>
     \A p, q \in Forked :
        (p < q /\ age[p] < lifespan[p]) => age[q] <= age[p]

C10_RoundRobin ==
  [][C10_ScheduleStep]_vars /\ []C10_NoRepeat /\ []C10_CyclicOrder

\* Round-robin, two processes of lifespan 3 and no resource use: both have
\* executed two ticks, the second one has just been put back behind the
\* first one's turn, and the first one is returned again.
C10_Witness ==
  /\ policy = "rr" /\ ~resUsed
  /\ lifespan[1] = 3 /\ lifespan[2] = 3
  /\ age[1] = 2 /\ age[2] = 2
  /\ last.op = "schedule" /\ last.proc = 2 /\ last.next = 1
  /\ readyqueue = <<2>>

\* ------------------------------------------------------------------- C11
\* The position in q of the entry nearest the head whose lifespan is the
\* smallest of q.
ShortestIndex(q) ==
  CHOOSE i \in 1..Len(q) :
    /\ \A j \in 1..Len(q) : lifespan[q[i]] <= lifespan[q[j]]
    /\ \A j \in 1..(i - 1) : lifespan[q[j]] > lifespan[q[i]]

C11_ScheduleStep ==
  (policy = "sjf" /\ last'.op = "schedule") =>
     IF Runnable(current)
     THEN current' = current /\ readyqueue' = readyqueue
     ELSE IF readyqueue # <<>>
          THEN LET next == readyqueue[ShortestIndex(readyqueue)] IN
               /\ current' = next
               /\ readyqueue' = list_del_init(next, readyqueue)
          ELSE current' = NULL /\ readyqueue' = readyqueue

\* Without resource use a process that has started and not finished is the
\* running one: nothing else is returned before it completes.
C11_RunsToCompletion ==
  (policy = "sjf" /\ ~resUsed) =>
     \A p \in Procs : (0 < age[p] /\ age[p] < lifespan[p]) => current = p

\* C11: under SJF a pick removes and returns the ready process with the
\* smallest lifespan, the one nearest the head among equals; a running process
\* that is not blocked and has not completed is returned again whatever has
\* arrived, so a process once started runs to completion.
C11_ShortestJobNonPreemptive == [][C11_ScheduleStep]_vars /\ []C11_RunsToCompletion

\* SJF has just picked process 2 over a longer process at the head of the
\* ready queue, and another entry as short as 2 stays queued behind it.
C11_Witness ==
  /\ policy = "sjf"
  /\ last.op = "schedule" /\ last.next = 2 /\ current = 2
  /\ readyqueue = <<1, 3>>
  /\ lifespan[1] > lifespan[2] /\ lifespan[3] = lifespan[2]
  /\ age[2] = 0

\* ------------------------------------------------------------------- C12
\* remaining time = lifespan - age
Remaining(p) == lifespan[p] - age[p]

\* A ready process has strictly less remaining time than the running one.
ShorterReady ==
  /\ Runnable(current)
  /\ \E p \in SeqSet(readyqueue) : Remaining(p) < Remaining(current)

C12_PreemptStep ==
  (policy = "stcf" /\ last'.op = "schedule" /\ ShorterReady) =>
     /\ current' \in SeqSet(readyqueue)
     /\ \A p \in SeqSet(readyqueue) : Remaining(current') <= Remaining(p)
     /\ readyqueue' = list_del_init(current', list_add_tail(current, readyqueue))

\* C12: under STCF, when the running process can continue and some ready
\* process, of any age, has strictly less remaining time, schedule() appends
\* the running process to the ready queue and returns a ready process whose
\* remaining time is the minimum over the ready queue.
C12_StcfPreempts == [][C12_PreemptStep]_vars

\* ------------------------------------------------------------------- C13
\* The schedulers whose .schedule is prio_schedule.
PrioPick == {"prio", "pcp", "pip"}

\* The position in q of the entry nearest the head whose priority is the
\* highest of q.
HighestIndex(q) ==
  CHOOSE i \in 1..Len(q) :
    /\ \A j \in 1..Len(q) : prio[q[i]] >= prio[q[j]]
    /\ \A j \in 1..(i - 1) : prio[q[j]] < prio[q[i]]

C13_PickStep ==
  (policy \in PrioPick /\ last'.op = "schedule") =>
     LET q == IF Runnable(current) THEN list_add_tail(current, readyqueue)
              ELSE readyqueue
     IN IF q # <<>>
        THEN LET next == q[HighestIndex(q)] IN
             /\ current' = next
             /\ readyqueue' = list_del_init(next, q)
        ELSE current' = NULL /\ readyqueue' = q

\* C13: under Priority (and PCP, PIP, which share the pick), after a runnable
\* current process has been appended to the tail of the ready queue,
\* schedule() removes and returns the ready process of highest priority,
\* and among equal priorities the first one met scanning from the head.
C13_FirstAmongHighest == [][C13_PickStep]_vars

\* ------------------------------------------------------------------- C14
\* The schedulers whose release picks the waiter by priority.
PrioRelease == {"prio", "pa", "pcp", "pip"}

\* The waiter the release step just taken has removed from r's wait list.
Promoted(r) == CHOOSE w \in SeqSet(waitqueue[r]) : Count(waitqueue'[r], w) = 0

C14_ReleaseStep ==
  (policy \in PrioRelease /\ last'.op = "release" /\ waitqueue[last'.rid] # <<>>) =>
     LET r == last'.rid
         w == Promoted(r)
     IN /\ \E x \in SeqSet(waitqueue[r]) : waitqueue'[r] = list_del_init(x, waitqueue[r])
        /\ status'[w] = "READY"
        /\ readyqueue' = list_add_tail(w, readyqueue)
        /\ \A p \in Procs \ {w} : status'[p] = status[p]
        /\ \A x \in SeqSet(waitqueue[r]) : prio[x] <= prio[w]

\* C14: under Priority, Priority+Aging, PCP and PIP, release() of a resource
\* with waiters promotes exactly one waiter to READY and appends it to the
\* ready queue, and that waiter's priority at the moment of the call is the
\* highest among the waiters.
C14_HighestWaiterPromoted == [][C14_ReleaseStep]_vars

\* ------------------------------------------------------------------- C15
SpecPa == InitWith({"pa"}) /\ [][Next]_vars

\* Without resource use a process enters the ready queue at its base priority
\* and every schedule() call that passes it over adds one: prio - prio_orig
\* is the number of ticks it has waited there.
Waited(p) == prio[p] - prio_orig[p]

\* C15: under Priority+Aging without resource use, a process of base priority
\* 0 that stays in the ready queue is returned by schedule() within MAX_PRIO
\* ticks of entering it (its priority rises each tick until it is the highest
\* present), so no ready process is passed over forever.
C15_AgingProgress ==
  (policy = "pa" /\ ~resUsed) =>
     \A p \in SeqSet(readyqueue) : prio_orig[p] = 0 => Waited(p) < MAX_PRIO

\* ------------------------------------------------------------------- C16
SpecPcp == InitWith({"pcp"}) /\ [][Next]_vars

C16_AcquireStep ==
  (policy = "pcp" /\ last'.op = "acquire" /\ owner[last'.rid] = NULL) =>
     /\ last'.ok
     /\ owner'[last'.rid] = current
     /\ prio'[current] = MAX_PRIO

C16_OwnersAtCeiling ==
  policy = "pcp" =>
     \A r \in Resources : owner[r] # NULL => prio[owner[r]] = MAX_PRIO

\* C16: under PCP acquire() on a free resource makes the caller the owner
\* with prio == MAX_PRIO, and in every reachable state every process that
\* owns a resource has prio == MAX_PRIO.
C16_PcpCeiling == [][C16_AcquireStep]_vars /\ []C16_OwnersAtCeiling

\* A process of base priority below the ceiling has just acquired its second
\* resource under PCP and has executed before.
C16_Witness ==
  /\ policy = "pcp"
  /\ last.op = "acquire" /\ last.ok
  /\ \A r \in Resources : owner[r] = current
  /\ prio_orig[current] = 0 /\ prio[current] = MAX_PRIO
  /\ age[current] > 0

\* ------------------------------------------------------------------- C17
\* The schedulers whose release resets a waiter's priority.
ResetRelease == {"pcp", "pip"}

C17_PromotionStep ==
  (policy \in ResetRelease /\ last'.op = "release" /\ waitqueue[last'.rid] # <<>>) =>
     LET w == Promoted(last'.rid) IN prio'[w] = prio_orig[w]

\* C17: under PCP and PIP, whenever release() promotes a waiter, that
\* waiter's priority equals its base priority right after the promotion,
\* whatever its place on the wait list (first entry included) and whatever
\* elevated priority it had.
C17_PromotedAtBase == [][C17_PromotionStep]_vars

\* ------------------------------------------------------------------- C18
C18_AcquireStep ==
  (policy = "pip" /\ last'.op = "acquire") =>
     LET r == last'.rid IN
       IF owner[r] = NULL
       THEN /\ last'.ok
            /\ owner'[r] = current
            /\ prio' = prio
       ELSE LET L == owner[r] IN
            /\ ~last'.ok
            /\ owner'[r] = L
            /\ prio'[L] = IF prio[current] > prio[L] THEN prio[current] ELSE prio[L]
            /\ \A p \in Procs \ {L} : prio'[p] = prio[p]

\* C18: under PIP acquire() on a free resource makes the caller the owner and
\* changes no priority; on a resource owned by L the call fails and L's
\* priority afterwards is the larger of L's priority before and the caller's,
\* no other priority changing.
C18_PipAcquire == [][C18_AcquireStep]_vars

\* A request under PIP has just failed against an owner whose priority was
\* already above the caller's, so the owner's priority stayed as it was.
C18_Witness ==
  /\ policy = "pip"
  /\ last.op = "acquire" /\ ~last.ok
  /\ owner[last.rid] # NULL
  /\ prio[owner[last.rid]] > prio[last.proc]
  /\ status[last.proc] = "BLOCKED"

\* ------------------------------------------------------------------- C19
C19_ScheduleStep ==
  (last'.op = "schedule") =>
     /\ ~fault'
     /\ current' = NULL => (readyqueue = <<>> /\ ~Runnable(current))
     /\ readyqueue # <<>> => current' # NULL

\* C19: under every policy schedule() completes without fault in every
\* reachable state and returns a process or none; none only when the ready
\* queue is empty and current is absent, blocked or completed; whenever the
\* ready queue is not empty at pick time a process is returned.
C19_ScheduleTotal == [][C19_ScheduleStep]_vars

\* ------------------------------------------------------------------- C20
C20_ReleaseStep ==
  (policy \in ResetRelease /\ last'.op = "release") =>
     LET r == last'.rid IN
       \A p \in Procs :
          (waitqueue[r] = <<>> \/ p # Promoted(r)) => prio'[p] = prio[p]

\* C20: release() under PIP and PCP changes the priority of no process other
\* than the promoted waiter: the releasing process keeps its priority and the
\* waiters left on the wait list keep theirs.
C20_ReleaseFrame == [][C20_ReleaseStep]_vars

\* ------------------------------------------------------------------- C21
\* C21: under PIP, in every reachable state the owner of a resource has a
\* priority greater than or equal to that of every process on the resource's
\* wait list, from the moment the waiter blocks until the owner releases.
C21_InheritanceInvariant ==
  policy = "pip" =>
     \A r \in Resources :
        owner[r] # NULL =>
           \A w \in SeqSet(waitqueue[r]) : prio[owner[r]] >= prio[w]

\* ------------------------------------------------------------------- C22
C22_AgingStep ==
  (policy = "pa" /\ last'.op = "schedule") =>
     /\ \A p \in SeqSet(readyqueue') :
          prio'[p] = prio[p] + 1 /\ prio'[p] < MAX_PRIO
     /\ current' # NULL => prio'[current'] = prio_orig[current']

C22_BelowCeiling ==
  policy = "pa" => \A p \in Procs : prio[p] < MAX_PRIO

\* C22: under Priority+Aging every schedule() call raises the priority of
\* each process left in the ready queue by exactly one but never to MAX_PRIO
\* or above, and resets the selected process to its base priority, so in every
\* reachable state every process has priority < MAX_PRIO.
C22_AgingBound == [][C22_AgingStep]_vars /\ []C22_BelowCeiling

\* ------------------------------------------------------------------- C23
\* The policies of the claim, run without any acquire or release. The driver
\* keeps ticking: a step of the loop that is possible is eventually taken.
NoAging == {"fcfs", "sjf", "stcf", "rr", "prio"}
NextIdle == Fork \/ Tick \/ Run
SpecIdle == InitWith(NoAging) /\ [][NextIdle]_vars /\ WF_vars(NextIdle)

Unfinished(p) == status[p] # "NONE" /\ age[p] < lifespan[p]

C23_TickStep ==
  (policy \in NoAging /\ ~resUsed /\ last'.op = "schedule") =>
     IF \E p \in Procs : Unfinished(p)
     THEN current' # NULL /\ Unfinished(current')
     ELSE current' = NULL

C23_RunStep ==
  (policy \in NoAging /\ ~resUsed /\ last'.op = "run") =>
     /\ Unfinished(current)
     /\ age' = [age EXCEPT ![current] = @ + 1]

C23_AllDone ==
  /\ \A p \in 1..NPROC : status[p] = "TERMINATED" /\ age[p] = lifespan[p]
  /\ current = NULL /\ readyqueue = <<>>

\* C23: under FCFS, SJF, STCF, Round-Robin and Priority, for processes that
\* use no resources, every tick on which some process is unfinished runs
\* exactly one unfinished process, every process eventually reaches
\* age == lifespan, and schedule() then returns none.
C23_Completion ==
  [][C23_TickStep /\ C23_RunStep]_vars /\ <>[]C23_AllDone

\* Three processes, one of them of the largest lifespan, have all completed
\* and schedule() has just returned none.
C23_Witness ==
  /\ policy \in NoAging /\ ~resUsed
  /\ C23_AllDone
  /\ last.op = "schedule" /\ last.next = NULL
  /\ \E p \in 1..NPROC : lifespan[p] = MaxLifespan

=============================================================================
